---- MODULE Spec2Model ----
(***************************************************************************)
(* Idempotent context registration against a shared MLMD store             *)
(* (tfx/orchestration/portable/mlmd/context_lib.py).                       *)
(*                                                                         *)
(* Every store call of the code (get_context_by_type_and_name,             *)
(* put_contexts, put_parent_contexts, type registration) is one atomic     *)
(* step; callers are independent processes that interleave at store-call   *)
(* granularity.  Local computation is folded into the store call that      *)
(* precedes it.                                                            *)
(***************************************************************************)
EXTENDS Naturals, Integers, Sequences, FiniteSets, Bags, TLC

(***************************************************************************)
(* Bounds of the model.                                                    *)
(***************************************************************************)
NumProcs == 2       \* concurrent callers
MaxCalls == 3       \* _register_context_if_not_exist invocations, in total
MaxFaults == 1      \* store misbehaviours (errors, lost re-reads), in total

Procs == 1..NumProcs

(***************************************************************************)
(* Data: type descriptors, property values, ContextSpecs.                  *)
(***************************************************************************)
PIPELINE_CONTEXT_TYPE_NAME == "pipeline"
PIPELINE_RUN_CONTEXT_TYPE_NAME == "pipeline_run"
NODE_TYPE_NAME == "node"

EmptyMap == [k \in {} |-> [kind |-> "INT", val |-> 0]]
NoSchema == [k \in {} |-> "INT"]

IntValue(n) == [kind |-> "INT", val |-> n]
StrValue(n) == [kind |-> "STRING", val |-> n]

\* ContextSpec: type (name + declared property schema), name, properties.
ContextSpec(tname, schema, cname, props) ==
  [type |-> [name |-> tname, properties |-> schema],
   name |-> cname,
   properties |-> props]

NodeSchema == [k \in {"k"} |-> "INT"]

SpecP1 == ContextSpec(PIPELINE_CONTEXT_TYPE_NAME, NoSchema, "p1", EmptyMap)
SpecP2 == ContextSpec(PIPELINE_CONTEXT_TYPE_NAME, NoSchema, "p2", EmptyMap)
SpecR1 == ContextSpec(PIPELINE_RUN_CONTEXT_TYPE_NAME, NoSchema, "r1", EmptyMap)
\* a node context with a declared property k and an undeclared one c
SpecNa == ContextSpec(NODE_TYPE_NAME, NodeSchema, "n1",
                      [k \in {"k", "c"} |-> IF k = "k" THEN IntValue(1) ELSE StrValue(7)])
\* the same (type, name) with a different value of k
SpecNb == ContextSpec(NODE_TYPE_NAME, NodeSchema, "n1",
                      [k \in {"k"} |-> IntValue(2)])
\* the same (type, name) with k of the wrong kind
SpecNc == ContextSpec(NODE_TYPE_NAME, NodeSchema, "n1",
                      [k \in {"k"} |-> StrValue(1)])

Specs == {SpecP1, SpecP2, SpecR1, SpecNa, SpecNb, SpecNc}

\* The absent result of a lookup (Python None).
None == [none |-> TRUE]

VARIABLES
  types,      \* the store's type table: sequence of [name, properties]; id = index
  contexts,   \* the store's context table: sequence of Context records; id = index
  edges,      \* the store's ParentContext table: a bag of <<parent_id, child_id>>
  pc,         \* per caller: position in _register_context_if_not_exist
  frame,      \* per caller: locals of the running invocation
  outer,      \* per caller: locals of the calling API function
  log,        \* the finished invocations: a set of LogEntry records
  batches,    \* the finished prepare_contexts calls: [specs, result]
  links,      \* (parent, child, how it left) of direct put_parent_context_if_not_exists calls
  calls,      \* invocations started so far
  faults,     \* store misbehaviours so far: [error, lost]
  build,      \* _generate_context_proto on its own: [type, spec, result]
  disp        \* the python execution binary: flags, locals, calls made, files written

vars == <<types, contexts, edges, pc, frame, outer, log, batches, links, calls, faults, build, disp>>

(***************************************************************************)
(* The store (MLMD), by the contract the code relies on.                   *)
(***************************************************************************)
Min(S) == CHOOSE x \in S : \A y \in S : x <= y

TypeIds(type_name) == {i \in 1..Len(types) : types[i].name = type_name}

\* store.get_context_by_type_and_name: the context, or None.
get_context_by_type_and_name(type_name, context_name) ==
  LET m == {i \in 1..Len(contexts) :
              /\ contexts[i].name = context_name
              /\ contexts[i].type_id \in TypeIds(type_name)}
  IN IF m = {} THEN None ELSE contexts[Min(m)]

\* The uniqueness constraint of the context table: (type_id, name) is taken.
MutKeyNeverTaken(context) == FALSE

KeyTaken(context) ==
  \E i \in 1..Len(contexts) :
    /\ contexts[i].type_id = context.type_id
    /\ contexts[i].name = context.name

\* store.put_contexts([context]) when it succeeds: the table afterwards.
\* The new row gets the next id.
put_contexts(context) ==
  Append(contexts, [context EXCEPT !.id = Len(contexts) + 1])

\* The uniqueness constraint of the ParentContext table.
EdgeTaken(parent_id, child_id) == BagIn(<<parent_id, child_id>>, edges)

\* store.put_parent_contexts([edge]) when it succeeds: the table afterwards.
put_parent_contexts(parent_id, child_id) ==
  edges (+) SetToBag({<<parent_id, child_id>>})

\* common_utils.register_type_if_not_exist: the type table afterwards, and the
\* registered descriptor (with its id and the schema the store holds).
TypesAfterRegister(metadata_type) ==
  IF TypeIds(metadata_type.name) # {} THEN types
  ELSE Append(types, [name |-> metadata_type.name,
                      properties |-> metadata_type.properties])

register_type_if_not_exist(metadata_type) ==
  LET t == TypesAfterRegister(metadata_type)
      i == Min({j \in 1..Len(t) : t[j].name = metadata_type.name})
  IN [id |-> i, name |-> t[i].name, properties |-> t[i].properties]

(***************************************************************************)
(* _generate_context_proto: the property loop.                             *)
(***************************************************************************)
get_metadata_value_type(v) == v.kind

\* A key of the spec whose kind differs from the registered schema's: the loop
\* raises RuntimeError at the first such key it meets.
MismatchedKeys(context_type, context_spec) ==
  {k \in DOMAIN context_spec.properties :
     /\ k \in DOMAIN context_type.properties
     /\ context_type.properties[k] # get_metadata_value_type(context_spec.properties[k])}

RuntimeError == [error |-> "RuntimeError"]

\* Mutant: the kinds are not compared; every declared key is stored.
MutGenerateNoKindCheck(context_type, context_spec) ==
  [id |-> 0,
   type_id |-> context_type.id,
   name |-> context_spec.name,
   properties |->
     [k \in {x \in DOMAIN context_spec.properties :
               x \in DOMAIN context_type.properties}
        |-> context_spec.properties[k]],
   custom_properties |->
     [k \in {x \in DOMAIN context_spec.properties :
               x \notin DOMAIN context_type.properties}
        |-> context_spec.properties[k]]]

generate_context_proto(context_type, context_spec) ==
  IF MismatchedKeys(context_type, context_spec) # {} THEN RuntimeError
  ELSE [id |-> 0,
        type_id |-> context_type.id,
        name |-> context_spec.name,
        properties |->
          [k \in {x \in DOMAIN context_spec.properties :
                    x \in DOMAIN context_type.properties}
             |-> context_spec.properties[k]],
        custom_properties |->
          [k \in {x \in DOMAIN context_spec.properties :
                    x \notin DOMAIN context_type.properties}
             |-> context_spec.properties[k]]]

(***************************************************************************)
(* Process state.                                                          *)
(***************************************************************************)
\* Ids that invocations of the same spec without parents had returned before.
ReturnedBefore(context_spec, lg) ==
  {e.context.id : e \in {x \in lg : /\ x.spec = context_spec
                                    /\ x.parents = << >>
                                    /\ x.outcome = "returned"}}

\* Contexts whose creator has stopped between its insert and its first edge insert.
Unlinked == {frame[q].context.id : q \in {r \in Procs : pc[r] = "crashed"}}

NewFrame(context_spec, parent_contexts, lg) ==
  [spec |-> context_spec,
   parents |-> parent_contexts,   \* the ids of parent_contexts, in order
   after |-> ReturnedBefore(context_spec, lg),
   late |-> Unlinked,             \* the invocation starts after these were left unlinked
   context |-> None,
   i |-> 0,                       \* parents linked so far
   path |-> "none",               \* "fast", "created", "conflict"
   lookups |-> 0,                 \* get_context_by_type_and_name calls
   typeregs |-> 0,                \* register_type_if_not_exist calls
   inserts |-> 0,                 \* put_contexts calls
   edgeputs |-> 0]                \* put_parent_contexts calls

Single == [kind |-> "single"]
NoOuter == [kind |-> "none"]

LogEntry(f, outcome, context) ==
  [spec |-> f.spec, parents |-> f.parents, after |-> f.after, late |-> f.late,
   outcome |-> outcome,
   path |-> f.path, context |-> context,
   lookups |-> f.lookups, typeregs |-> f.typeregs,
   inserts |-> f.inserts, edgeputs |-> f.edgeputs]

FaultCount == faults.error + faults.lost

(***************************************************************************)
(* prepare_contexts: the two loops over node_contexts.contexts.            *)
(***************************************************************************)
IsPipeline(context_spec) ==
  context_spec.type.name = PIPELINE_CONTEXT_TYPE_NAME

\* variant: one loop that registers every spec in the order given
MutNextIdxOneLoop(specs, pass, from) ==
  IF pass = 1 /\ from < Len(specs) THEN from + 1 ELSE 0

\* The next index after `from` that loop `pass` registers; 0 when none is left.
NextIdx(specs, pass, from) ==
  LET S == {i \in (from + 1)..Len(specs) :
              IF pass = 1 THEN IsPipeline(specs[i]) ELSE ~IsPipeline(specs[i])}
  IN IF S = {} THEN 0 ELSE Min(S)

\* The loop position after the invocation at o.idx has returned; pass 3 = return.
BatchAdvance(o) ==
  LET n1 == NextIdx(o.specs, o.pass, o.idx)
      n2 == NextIdx(o.specs, 2, 0)
  IN IF n1 # 0 THEN [o EXCEPT !.idx = n1]
     ELSE IF o.pass = 1 /\ n2 # 0 THEN [o EXCEPT !.pass = 2, !.idx = n2]
     ELSE [o EXCEPT !.pass = 3, !.idx = 0]

\* variant: every context of the second loop gets the pipeline contexts
MutParentsForAllOthers(o) ==
  IF o.pass = 2 THEN o.pipeline_contexts ELSE << >>

\* parent_contexts of the invocation at the loop position.
BatchParents(o) ==
  IF o.pass = 2 /\ o.specs[o.idx].type.name = PIPELINE_RUN_CONTEXT_TYPE_NAME
  THEN o.pipeline_contexts ELSE << >>

NewBatch(specs) ==
  BatchAdvance([kind |-> "batch", specs |-> specs, pass |-> 1, idx |-> 0,
                pipeline_contexts |-> << >>, result |-> << >>])

\* variant: the first loop keeps pipeline_contexts only, without result.append
MutPipelinesNotInResult(o, context) ==
  [o EXCEPT !.result = IF o.pass = 1 THEN @ ELSE Append(@, context),
            !.pipeline_contexts = IF o.pass = 1 THEN Append(@, context.id) ELSE @]

\* result.append / pipeline_contexts.append after an invocation returned.
BatchCollect(o, context) ==
  [o EXCEPT !.result = Append(@, context),
            !.pipeline_contexts = IF o.pass = 1 THEN Append(@, context.id) ELSE @]

(***************************************************************************)
(* Leaving _register_context_if_not_exist.                                 *)
(***************************************************************************)
\* return context
Return(p, f, context) ==
  /\ log' = log \cup {LogEntry(f, "returned", context)}
  /\ IF outer[p].kind = "batch"
     THEN LET o == BatchAdvance(BatchCollect(outer[p], context))
          IN IF o.pass = 3
             THEN /\ batches' = batches \cup {[specs |-> o.specs, result |-> o.result]}
                  /\ pc' = [pc EXCEPT ![p] = "idle"]
                  /\ frame' = [frame EXCEPT ![p] = None]
                  /\ outer' = [outer EXCEPT ![p] = NoOuter]
             ELSE /\ pc' = [pc EXCEPT ![p] = "lookup"]
                  /\ frame' = [frame EXCEPT ![p] = NewFrame(o.specs[o.idx], BatchParents(o), log')]
                  /\ outer' = [outer EXCEPT ![p] = o]
                  /\ UNCHANGED batches
     ELSE /\ pc' = [pc EXCEPT ![p] = "idle"]
          /\ frame' = [frame EXCEPT ![p] = None]
          /\ outer' = [outer EXCEPT ![p] = NoOuter]
          /\ UNCHANGED batches

\* an exception leaves the invocation and its caller
Raise(p, f, err) ==
  /\ log' = log \cup {LogEntry(f, err, None)}
  /\ pc' = [pc EXCEPT ![p] = "idle"]
  /\ frame' = [frame EXCEPT ![p] = None]
  /\ outer' = [outer EXCEPT ![p] = NoOuter]
  /\ UNCHANGED batches

\* variant: the failed store call is caught and the step tried again
MutStoreErrorRetried(p, f) ==
  /\ FaultCount < MaxFaults
  /\ faults' = [faults EXCEPT !.error = @ + 1]
  /\ frame' = [frame EXCEPT ![p] = f]
  /\ UNCHANGED <<pc, outer, log, batches>>

\* a store call that fails with an error other than AlreadyExists
StoreError(p, f) ==
  /\ FaultCount < MaxFaults
  /\ faults' = [faults EXCEPT !.error = @ + 1]
  /\ Raise(p, f, "StoreError")

(***************************************************************************)
(* _register_context_if_not_exist, one action per store call.              *)
(***************************************************************************)
\* lines 89-90: the key of the lookup
MutLookupKeySwapped(context_spec) == <<context_spec.name, context_spec.type.name>>

LookupKey(context_spec) == <<context_spec.type.name, context_spec.name>>

\* lines 115-119: what follows once `context` is settled
AfterContext(p, f) ==
  IF f.parents # << >>
  THEN /\ pc' = [pc EXCEPT ![p] = "link"]
       /\ frame' = [frame EXCEPT ![p] = f]
       /\ UNCHANGED <<outer, log, batches>>
  ELSE Return(p, f, f.context)

\* Mutants of the early return of lines 93-94: the found context is linked to
\* the parents like a new one; the return is missing.
MutFastPathRelinks(p, f, found) ==
  /\ AfterContext(p, [f EXCEPT !.path = "fast", !.context = found])
  /\ UNCHANGED <<types, contexts, edges, links, calls, faults, build, disp>>

MutFastPathFallsThrough(p, f, found) ==
  /\ pc' = [pc EXCEPT ![p] = "generate"]
  /\ frame' = [frame EXCEPT ![p] = f]
  /\ UNCHANGED <<types, contexts, edges, outer, log, batches, links, calls, faults, build, disp>>

\* lines 93-94: the lookup found the context
FastPath(p, f, found) ==
  /\ Return(p, [f EXCEPT !.path = "fast"], found)
  /\ UNCHANGED <<types, contexts, edges, links, calls, faults, build, disp>>

\* lines 91-97
Lookup(p) ==
  /\ pc[p] = "lookup"
  /\ LET key == LookupKey(frame[p].spec)
         found == get_context_by_type_and_name(key[1], key[2])
         f == [frame[p] EXCEPT !.lookups = @ + 1]
     IN IF found # None
        THEN FastPath(p, f, found)
        ELSE /\ pc' = [pc EXCEPT ![p] = "generate"]
             /\ frame' = [frame EXCEPT ![p] = f]
             /\ UNCHANGED <<types, contexts, edges, outer, log, batches, links, calls, faults, build, disp>>

LookupError(p) ==
  /\ pc[p] = "lookup"
  /\ StoreError(p, [frame[p] EXCEPT !.lookups = @ + 1])
  /\ UNCHANGED <<types, contexts, edges, links, calls, build, disp>>

\* lines 99-100 (and 52-69): register the type, build the proto
Generate(p) ==
  /\ pc[p] = "generate"
  /\ LET context_spec == frame[p].spec
         context_type == register_type_if_not_exist(context_spec.type)
         proto == generate_context_proto(context_type, context_spec)
         f == [frame[p] EXCEPT !.typeregs = @ + 1]
     IN /\ types' = TypesAfterRegister(context_spec.type)
        /\ IF proto = RuntimeError
           THEN Raise(p, f, "RuntimeError")
           ELSE /\ pc' = [pc EXCEPT ![p] = "put"]
                /\ frame' = [frame EXCEPT ![p] = [f EXCEPT !.context = proto]]
                /\ UNCHANGED <<outer, log, batches>>
  /\ UNCHANGED <<contexts, edges, links, calls, faults, build, disp>>

GenerateError(p) ==
  /\ pc[p] = "generate"
  /\ StoreError(p, [frame[p] EXCEPT !.typeregs = @ + 1])
  /\ UNCHANGED <<types, contexts, edges, links, calls, build, disp>>

\* lines 101-106: the insert
Put(p) ==
  /\ pc[p] = "put"
  /\ LET f == [frame[p] EXCEPT !.inserts = @ + 1]
     IN IF KeyTaken(f.context)
        THEN \* AlreadyExistsError
             /\ pc' = [pc EXCEPT ![p] = "reread"]
             /\ frame' = [frame EXCEPT ![p] = [f EXCEPT !.path = "conflict"]]
             /\ UNCHANGED <<contexts, outer, log, batches>>
        ELSE /\ contexts' = put_contexts(f.context)
             /\ AfterContext(p, [f EXCEPT !.path = "created",
                                          !.context.id = Len(contexts) + 1])
  /\ UNCHANGED <<types, edges, links, calls, faults, build, disp>>

PutError(p) ==
  /\ pc[p] = "put"
  /\ StoreError(p, [frame[p] EXCEPT !.inserts = @ + 1])
  /\ UNCHANGED <<types, contexts, edges, links, calls, build, disp>>

\* line 107: context = the re-read one
MutRereadKeepsBuilt(built, found) == built

MutRereadKeepsOwnProperties(built, found) == [built EXCEPT !.id = found.id]

RereadResult(built, found) == found

\* lines 109-111: the assertion fails (without assertions, line 113 raises
\* AttributeError on None: the invocation ends with an error either way)
MutRereadMissRetries(p, f) ==
  /\ pc' = [pc EXCEPT ![p] = "lookup"]
  /\ frame' = [frame EXCEPT ![p] = f]
  /\ UNCHANGED <<outer, log, batches>>

RereadMiss(p, f) == Raise(p, f, "AssertionError")

\* lines 113-119: after the except block the code falls through to the parent loop
MutConflictReturns(p, f) == Return(p, f, f.context)

AfterReread(p, f) == AfterContext(p, f)

\* lines 107-111: the re-read after AlreadyExistsError
Reread(p) ==
  /\ pc[p] = "reread"
  /\ LET key == LookupKey(frame[p].spec)
         found == get_context_by_type_and_name(key[1], key[2])
         f == [frame[p] EXCEPT !.lookups = @ + 1]
     IN IF found = None
        THEN RereadMiss(p, f)
        ELSE AfterReread(p, [f EXCEPT !.context = RereadResult(f.context, found)])
  /\ UNCHANGED <<types, contexts, edges, links, calls, faults, build, disp>>

\* the store reported AlreadyExists and now shows nothing
RereadLost(p) ==
  /\ pc[p] = "reread"
  /\ FaultCount < MaxFaults
  /\ faults' = [faults EXCEPT !.lost = @ + 1]
  /\ RereadMiss(p, [frame[p] EXCEPT !.lookups = @ + 1])
  /\ UNCHANGED <<types, contexts, edges, links, calls, build, disp>>

RereadError(p) ==
  /\ pc[p] = "reread"
  /\ StoreError(p, [frame[p] EXCEPT !.lookups = @ + 1])
  /\ UNCHANGED <<types, contexts, edges, links, calls, build, disp>>

\* lines 228-232: put_parent_context_if_not_exists; AlreadyExistsError is passed
EdgesAfterPut(parent_id, child_id) ==
  IF EdgeTaken(parent_id, child_id) THEN edges
  ELSE put_parent_contexts(parent_id, child_id)

\* what store.put_parent_contexts answers for this edge
PutParentResult(parent_id, child_id) ==
  IF EdgeTaken(parent_id, child_id) THEN "AlreadyExistsError" ELSE "ok"

\* lines 230-232: except mlmd_errors.AlreadyExistsError: pass
MutNothingPassed(err) == FALSE

Passed(err) == err = "AlreadyExistsError"

\* lines 228-237: how put_parent_context_if_not_exists leaves, "ok" = returns None
put_parent_context_if_not_exists(parent_id, child_id) ==
  LET r == PutParentResult(parent_id, child_id)
  IN IF r = "ok" \/ Passed(r) THEN "ok" ELSE r

\* line 116: the loop over parent_contexts is over
MutLoopStopsAfterFirst(f) == TRUE

LoopDone(f) == f.i = Len(f.parents)

\* lines 116-119: one iteration of the loop
Link(p) ==
  /\ pc[p] = "link"
  /\ LET f0 == frame[p]
         f == [f0 EXCEPT !.i = @ + 1, !.edgeputs = @ + 1]
         left == put_parent_context_if_not_exists(f.parents[f.i], f.context.id)
     IN /\ edges' = EdgesAfterPut(f.parents[f.i], f.context.id)
        /\ IF left # "ok"
           THEN Raise(p, f, left)
           ELSE IF LoopDone(f)
           THEN Return(p, f, f.context)
           ELSE /\ frame' = [frame EXCEPT ![p] = f]
                /\ UNCHANGED <<pc, outer, log, batches>>
  /\ UNCHANGED <<types, contexts, links, calls, faults, build, disp>>

LinkError(p) ==
  /\ pc[p] = "link"
  /\ StoreError(p, [frame[p] EXCEPT !.i = @ + 1, !.edgeputs = @ + 1])
  /\ UNCHANGED <<types, contexts, edges, links, calls, build, disp>>

(***************************************************************************)
(* The callers.                                                            *)
(***************************************************************************)
ContextIds == 1..Len(contexts)

PipelineIds ==
  {i \in ContextIds : contexts[i].type_id \in TypeIds(PIPELINE_CONTEXT_TYPE_NAME)}

\* parent_contexts a caller can hold: contexts the store has returned
ParentChoices ==
  {<< >>} \cup {<<i>> : i \in PipelineIds}
          \cup {<<e[1], e[2]>> : e \in {x \in PipelineIds \X PipelineIds : x[1] < x[2]}}

Batches ==
  {<<SpecP1, SpecR1>>, <<SpecR1, SpecP2>>, <<SpecP1, SpecP2, SpecR1>>,
   <<SpecP1, SpecR1, SpecNa>>}

\* register_context_if_not_exists / _register_context_if_not_exist called directly.
\* Parents are passed for the pipeline run context, as prepare_contexts does,
\* and for the spec whose build fails.
StartSingle(p) ==
  /\ pc[p] = "idle"
  /\ calls < MaxCalls
  /\ \E context_spec \in Specs, parent_contexts \in ParentChoices :
       /\ context_spec \notin {SpecR1, SpecNc} => parent_contexts = << >>
       /\ frame' = [frame EXCEPT ![p] = NewFrame(context_spec, parent_contexts, log)]
  /\ pc' = [pc EXCEPT ![p] = "lookup"]
  /\ outer' = [outer EXCEPT ![p] = Single]
  /\ calls' = calls + 1
  /\ UNCHANGED <<types, contexts, edges, log, batches, links, faults, build, disp>>

\* prepare_contexts
StartBatch(p) ==
  /\ pc[p] = "idle"
  /\ \E specs \in Batches :
       LET o == NewBatch(specs)
       IN /\ calls + Len(specs) <= MaxCalls
          /\ calls' = calls + Len(specs)
          /\ outer' = [outer EXCEPT ![p] = o]
          /\ frame' = [frame EXCEPT ![p] = NewFrame(o.specs[o.idx], BatchParents(o), log)]
  /\ pc' = [pc EXCEPT ![p] = "lookup"]
  /\ UNCHANGED <<types, contexts, edges, log, batches, links, faults, build, disp>>

\* put_parent_context_if_not_exists called directly
LinkCall(p) ==
  /\ pc[p] = "idle"
  /\ calls < MaxCalls
  /\ \E parent_id \in ContextIds, child_id \in ContextIds :
       /\ parent_id # child_id
       /\ edges' = EdgesAfterPut(parent_id, child_id)
       /\ links' = links \cup {<<parent_id, child_id,
                                  put_parent_context_if_not_exists(parent_id, child_id)>>}
  /\ calls' = calls + 1
  /\ UNCHANGED <<types, contexts, pc, frame, outer, log, batches, faults, build, disp>>

\* the same call when store.put_parent_contexts fails with another error
LinkCallError(p) ==
  /\ pc[p] = "idle"
  /\ calls < MaxCalls
  /\ FaultCount < MaxFaults
  /\ \E parent_id \in ContextIds, child_id \in ContextIds :
       /\ parent_id # child_id
       /\ links' = links \cup {<<parent_id, child_id, "StoreError">>}
  /\ faults' = [faults EXCEPT !.error = @ + 1]
  /\ calls' = calls + 1
  /\ UNCHANGED <<types, contexts, edges, pc, frame, outer, log, batches, build, disp>>

NoBuild == [type |-> None, spec |-> None, result |-> None]

\* python_execution_lib is not running
NoDisp == [pc |-> "none"]

Init ==
  /\ types = << >>
  /\ contexts = << >>
  /\ edges = EmptyBag
  /\ pc = [p \in Procs |-> "idle"]
  /\ frame = [p \in Procs |-> None]
  /\ outer = [p \in Procs |-> NoOuter]
  /\ log = {}
  /\ batches = {}
  /\ links = {}
  /\ calls = 0
  /\ faults = [error |-> 0, lost |-> 0]
  /\ build = NoBuild
  /\ disp = NoDisp

Next ==
  \E p \in Procs :
    \/ StartSingle(p)
    \/ StartBatch(p)
    \/ LinkCall(p)
    \/ LinkCallError(p)
    \/ Lookup(p)
    \/ LookupError(p)
    \/ Generate(p)
    \/ GenerateError(p)
    \/ Put(p)
    \/ PutError(p)
    \/ Reread(p)
    \/ RereadLost(p)
    \/ RereadError(p)
    \/ Link(p)
    \/ LinkError(p)

Spec == Init /\ [][Next]_vars

\* The store calls of a running invocation return: a caller that is inside a
\* call takes its next step.
Step(p) == Lookup(p) \/ Generate(p) \/ Put(p) \/ Reread(p) \/ Link(p)

FairSpec == Spec /\ \A p \in Procs : WF_vars(Step(p))

\* lines 102-117: the caller's process stops after its put_contexts succeeded and
\* before the first put_parent_contexts of its parent loop
Crash(p) ==
  /\ pc[p] = "link"
  /\ frame[p].path = "created"
  /\ frame[p].i = 0
  /\ pc' = [pc EXCEPT ![p] = "crashed"]
  /\ UNCHANGED <<types, contexts, edges, frame, outer, log, batches, links, calls, faults, build, disp>>

NextCrash == Next \/ \E p \in Procs : Crash(p)

SpecCrash == Init /\ [][NextCrash]_vars

(***************************************************************************)
(* _generate_context_proto on its own, over every registered schema and    *)
(* every property map on two keys and three kinds.                         *)
(***************************************************************************)
Keys == {"k", "c"}
Kinds == {"INT", "DOUBLE", "STRING"}
Values == {[kind |-> x, val |-> 1] : x \in Kinds}

Schemas == UNION {[S -> Kinds] : S \in SUBSET Keys}
PropertyMaps == UNION {[S -> Values] : S \in SUBSET Keys}

InitBuild ==
  /\ types = << >>
  /\ contexts = << >>
  /\ edges = EmptyBag
  /\ pc = [p \in Procs |-> "idle"]
  /\ frame = [p \in Procs |-> None]
  /\ outer = [p \in Procs |-> NoOuter]
  /\ log = {}
  /\ batches = {}
  /\ links = {}
  /\ calls = 0
  /\ faults = [error |-> 0, lost |-> 0]
  /\ disp = NoDisp
  /\ \E schema \in Schemas, props \in PropertyMaps :
       build = [type |-> [id |-> 1, name |-> NODE_TYPE_NAME, properties |-> schema],
                spec |-> ContextSpec(NODE_TYPE_NAME, schema, "n1", props),
                result |-> None]

BuildStep ==
  /\ build.result = None
  /\ build' = [build EXCEPT !.result = generate_context_proto(build.type, build.spec)]
  /\ UNCHANGED <<types, contexts, edges, pc, frame, outer, log, batches, links, calls, faults, disp>>

SpecBuild == InitBuild /\ [][BuildStep]_vars

(***************************************************************************)
(* Properties.                                                             *)
(***************************************************************************)
Range(seq) == {seq[i] : i \in 1..Len(seq)}

Returned == {e \in log : e.outcome = "returned"}

\* the (type name, context name) pair an invocation is about
PairOf(e) == <<e.spec.type.name, e.spec.name>>

\* the rows of the context table for a (type name, context name) pair
RowsOf(pair) ==
  {i \in ContextIds : /\ contexts[i].name = pair[2]
                      /\ contexts[i].type_id \in TypeIds(pair[1])}

\* the parents with an edge into child_id
ParentsIn(child_id) == {parent_id \in ContextIds : BagIn(<<parent_id, child_id>>, edges)}

AllIdle == \A p \in Procs : pc[p] = "idle"

\* C1: all invocations for the same (type name, context name) pair that return,
\* under any interleaving of the callers' store calls, return one and the same id.
C1_RaceConvergence ==
  \A e1 \in Returned, e2 \in Returned :
    PairOf(e1) = PairOf(e2) => e1.context.id = e2.context.id

\* Two invocations for one pair have both returned, one after inserting and one
\* after losing the insert to it.
C1_Witness ==
  \E e1 \in Returned, e2 \in Returned :
    /\ PairOf(e1) = PairOf(e2)
    /\ e1.path = "created"
    /\ e2.path = "conflict"

\* C2: in every reachable state the context table holds at most one row per
\* (type, name) pair, and the type table at most one row per type name.
C2_AtMostOneEntity ==
  /\ \A i \in ContextIds, j \in ContextIds :
       (contexts[i].type_id = contexts[j].type_id /\ contexts[i].name = contexts[j].name)
         => i = j
  /\ \A i \in 1..Len(types), j \in 1..Len(types) :
       types[i].name = types[j].name => i = j
  /\ \A i \in ContextIds : contexts[i].id = i

\* Two callers both missed on the lookup and both attempted the insert: one of
\* them is past a refused insert while the pair has its row.
C2_Witness ==
  \E p \in Procs :
    /\ pc[p] = "reread"
    /\ Cardinality(RowsOf(LookupKey(frame[p].spec))) = 1

\* C3: an invocation without parents that starts after an invocation of the
\* identical spec without parents has returned, returns the same id (it can end
\* otherwise only by a store error), and the pair has exactly one row.
C3_SequentialIdempotence ==
  \A e \in log :
    (e.parents = << >> /\ e.after # {}) =>
      /\ e.outcome \in {"returned", "StoreError"}
      /\ e.outcome = "returned" => e.after = {e.context.id}
      /\ Cardinality(RowsOf(PairOf(e))) = 1

\* The second of two calls in sequence has returned.
C3_Witness ==
  \E e \in Returned : e.parents = << >> /\ e.after # {}

\* The step of caller p in which its initial lookup finds the context.
C4_Step(p) ==
  LET key == LookupKey(frame[p].spec)
      found == get_context_by_type_and_name(key[1], key[2])
  IN (/\ pc[p] = "lookup"
      /\ frame'[p] # frame[p]
      /\ faults' = faults
      /\ found # None)
     => /\ types' = types /\ contexts' = contexts /\ edges' = edges
        /\ \E e \in log' :
             /\ e.spec = frame[p].spec /\ e.parents = frame[p].parents
             /\ e.after = frame[p].after
             /\ e.outcome = "returned" /\ e.context = found /\ e.path = "fast"
             /\ e.lookups = 1 /\ e.typeregs = 0 /\ e.inserts = 0 /\ e.edgeputs = 0
        /\ pc'[p] \in {"idle", "lookup"}
        /\ frame'[p] = None \/ frame'[p].lookups = 0

\* C4: a step in which the initial lookup finds the context ends the invocation:
\* it returns the found context, whatever the parents argument, and the type,
\* context and edge tables are as before; the invocation has made one lookup and
\* no type registration, no insert and no edge insert.
C4_FastPathFrame == [][\A p \in Procs : C4_Step(p)]_vars

\* An invocation with parents has returned on the fast path, and a parent it
\* named has no edge to the returned context.
C4_Witness ==
  \E e \in Returned :
    /\ e.path = "fast"
    /\ e.parents # << >>
    /\ Range(e.parents) \ ParentsIn(e.context.id) # {}

\* C5: an invocation whose insert succeeded and that returned, returns the row
\* the store wrote under the id the store assigned, and the store holds an edge
\* from each of its parents to that id.
C5_CreatorLinksAllParents ==
  \A e \in Returned :
    e.path = "created" =>
      /\ e.context.id \in ContextIds
      /\ contexts[e.context.id] = e.context
      /\ e.context.id \in RowsOf(PairOf(e))
      /\ Range(e.parents) \subseteq ParentsIn(e.context.id)

\* A creator with two parents has returned.
C5_Witness ==
  \E e \in Returned : e.path = "created" /\ Len(e.parents) = 2

Requested(id, paths) ==
  UNION {Range(e.parents) : e \in {x \in Returned : x.context.id = id /\ x.path \in paths}}

\* the parents linked to `id` by direct put_parent_context_if_not_exists calls
LinkedDirectly(id) == {l[1] : l \in {x \in links : x[2] = id /\ x[3] = "ok"}}

\* every call has returned: no caller is running and no call has raised
AllReturned == AllIdle /\ log = Returned

C8_Step(p) ==
  LET key == LookupKey(frame[p].spec)
      found == get_context_by_type_and_name(key[1], key[2])
  IN (/\ pc[p] = "reread"
      /\ frame'[p] # frame[p]
      /\ found = None \/ faults'.lost # faults.lost)
     => /\ pc'[p] = "idle" /\ frame'[p] = None /\ outer'[p] = NoOuter
        /\ types' = types /\ contexts' = contexts /\ edges' = edges
        /\ \E e \in log' :
             /\ e.spec = frame[p].spec /\ e.parents = frame[p].parents
             /\ e.after = frame[p].after
             /\ e.outcome = "AssertionError" /\ e.context = None
             /\ e.lookups = 2 /\ e.typeregs = 1 /\ e.inserts = 1 /\ e.edgeputs = 0

\* C8: a step in which the re-read after AlreadyExists finds nothing ends the
\* invocation with an error: no context is returned, the caller is not sent back
\* to the lookup or the insert, and no edge is inserted.
C8_RegistrationRace == [][\A p \in Procs : C8_Step(p)]_vars

\* An invocation with parents has ended on the failed assertion.
C8_Witness ==
  \E e \in log : e.outcome = "AssertionError" /\ e.parents # << >>

\* No step changes or removes a row of the context table.
C9_RowsKept ==
  /\ Len(contexts') >= Len(contexts)
  /\ \A i \in ContextIds : contexts'[i] = contexts[i]

\* Every returned context is the store's row for the invocation's pair.
C9_ReturnsTheRow ==
  \A e \in Returned :
    /\ e.context.id \in RowsOf(PairOf(e))
    /\ contexts[e.context.id] = e.context

\* C9: a row of the context table (id, properties, custom properties) never
\* changes once written, by any register_if_absent or register_batch call, and
\* every invocation that returns, returns the row as the successful insert wrote
\* it, whatever property values its own spec carries.
C9_FirstInsertWins == [][C9_RowsKept]_vars /\ []C9_ReturnsTheRow

\* An invocation has returned a row whose value of k is not the one of its spec.
C9_Witness ==
  \E e \in Returned :
    /\ "k" \in DOMAIN e.spec.properties
    /\ "k" \in DOMAIN e.context.properties
    /\ e.context.properties["k"] # e.spec.properties["k"]

\* C10: _generate_context_proto raises RuntimeError exactly when some key of the
\* spec is in the registered schema with another kind; otherwise every key of the
\* spec is stored with its value, under properties when the schema has the key
\* and under custom_properties when it has not.
C10_SchemaEnforcement ==
  build.result # None =>
    LET schema == build.type.properties
        props == build.spec.properties
        r == build.result
    IN IF \E k \in DOMAIN props : k \in DOMAIN schema /\ schema[k] # props[k].kind
       THEN r = RuntimeError
       ELSE /\ r # RuntimeError
            /\ r.id = 0 /\ r.type_id = build.type.id /\ r.name = build.spec.name
            /\ DOMAIN r.properties \cup DOMAIN r.custom_properties = DOMAIN props
            /\ \A k \in DOMAIN props :
                 IF k \in DOMAIN schema
                 THEN /\ k \in DOMAIN r.properties /\ r.properties[k] = props[k]
                      /\ k \notin DOMAIN r.custom_properties
                 ELSE /\ k \in DOMAIN r.custom_properties /\ r.custom_properties[k] = props[k]
                      /\ k \notin DOMAIN r.properties

\* A build has failed on one key while the other key is not in the schema.
C10_Witness ==
  /\ build.result = RuntimeError
  /\ DOMAIN build.spec.properties \ DOMAIN build.type.properties # {}

\* A build has stored one key under properties and one under custom_properties.
C10_WitnessStored ==
  /\ build.result # None /\ build.result # RuntimeError
  /\ DOMAIN build.result.properties # {}
  /\ DOMAIN build.result.custom_properties # {}

\* no (parent, child) pair has more than one row in the edge table
C11_OneEdgePerPair ==
  \A pair \in BagToSet(edges) : CopiesIn(pair, edges) = 1

\* The iteration of caller p's parent loop whose edge is in the store already.
C11_LoopStep(p) ==
  (/\ pc[p] = "link"
   /\ frame'[p] # frame[p]
   /\ faults' = faults
   /\ EdgeTaken(frame[p].parents[frame[p].i + 1], frame[p].context.id))
  => /\ edges' = edges
     /\ \A e \in log' \ log : e.outcome = "returned"
     /\ \/ pc'[p] = "link" /\ frame'[p].i = frame[p].i + 1
        \/ \E e \in log' : /\ e.outcome = "returned"
                           /\ e.spec = frame[p].spec
                           /\ e.context = frame[p].context
                           /\ e.edgeputs = frame[p].edgeputs + 1

\* A direct put_parent_context_if_not_exists call the store did not fail.
C11_DirectStep ==
  (calls' = calls + 1 /\ pc' = pc /\ faults' = faults)
  => /\ \A l \in links' \ links : l[3] = "ok"
     /\ \E l \in links' :
          edges' = IF BagIn(<<l[1], l[2]>>, edges) THEN edges
                   ELSE edges (+) SetToBag({<<l[1], l[2]>>})

\* C11: after any interleaving of put_parent_context_if_not_exists calls, from
\* the parent loop or direct, the store holds at most one edge per ordered
\* (parent, child) pair, and a call for an edge that exists already returns
\* without raising and leaves the edge table as it was.
C11_EdgeIdempotence ==
  /\ []C11_OneEdgePerPair
  /\ [][C11_DirectStep /\ \A p \in Procs : C11_LoopStep(p)]_vars

\* The creator of a context and a caller that lost the insert to it have both
\* linked the same parent: the later of the two edge inserts met the edge.
C11_Witness ==
  \E e1 \in Returned, e2 \in Returned :
    /\ e1.path = "created" /\ e2.path = "conflict"
    /\ e1.context.id = e2.context.id
    /\ Range(e1.parents) \cap Range(e2.parents) # {}
    /\ \A parent_id \in Range(e1.parents) :
         CopiesIn(<<parent_id, e1.context.id>>, edges) = 1

\* the store calls an invocation has made
StoreCalls(f) == f.lookups + f.typeregs + f.inserts + f.edgeputs

\* The step of caller p in which a store call fails with another error than
\* AlreadyExistsError.
C12_Step(p) ==
  (/\ pc[p] \in {"lookup", "generate", "put", "reread", "link"}
   /\ frame'[p] # frame[p]
   /\ faults'.error = faults.error + 1)
  => /\ types' = types /\ contexts' = contexts /\ edges' = edges
     /\ batches' = batches
     /\ pc'[p] = "idle" /\ frame'[p] = None /\ outer'[p] = NoOuter
     /\ \E e \in log' :
          /\ e.outcome = "StoreError" /\ e.context = None
          /\ e.spec = frame[p].spec /\ e.parents = frame[p].parents
          /\ e.path = frame[p].path
          /\ StoreCalls(e) = StoreCalls(frame[p]) + 1
          /\ pc[p] = "link" => e.edgeputs = frame[p].i + 1

\* A direct put_parent_context_if_not_exists call the store failed.
C12_DirectStep ==
  (calls' = calls + 1 /\ pc' = pc /\ faults'.error = faults.error + 1)
  => /\ edges' = edges
     /\ \E l \in links' : l[3] = "StoreError"

\* C12: a store failure other than AlreadyExists raised by the lookup, the
\* insert, the re-read or an edge insert leaves the invocation as that error,
\* to the caller of the invocation (a batch is abandoned); the failed call is
\* not made again, the tables are as before it, and after a failed edge insert
\* the remaining parents of the call are not linked.
C12_OnlyAlreadyExistsMasked ==
  [][C12_DirectStep /\ \A p \in Procs : C12_Step(p)]_vars

\* The first of two edge inserts of a creator failed: the call is over and its
\* context has no edge, neither from the first parent nor from the second.
C12_Witness ==
  \E e \in log :
    /\ e.outcome = "StoreError" /\ e.path = "created"
    /\ Len(e.parents) = 2 /\ e.edgeputs = 1
    /\ \E id \in RowsOf(PairOf(e)) : ParentsIn(id) = {}
    /\ AllIdle

NotPipeline(context_spec) == ~IsPipeline(context_spec)

\* the specs of a batch, the PIPELINE-typed ones first, each group as given
PipelinesFirst(specs) == SelectSeq(specs, IsPipeline) \o SelectSeq(specs, NotPipeline)

\* C13: prepare_contexts returns one context per given spec: the contexts of
\* the PIPELINE-typed specs in the order given, then those of all other specs
\* in the order given; every PIPELINE context is before every other one, also
\* when its spec is given after a spec of another type.
C13_BatchOutputOrder ==
  \A b \in batches :
    LET order == PipelinesFirst(b.specs)
    IN /\ Len(b.result) = Len(b.specs)
       /\ \A i \in 1..Len(b.result) :
            /\ i <= Len(order)
            /\ b.result[i].id \in RowsOf(<<order[i].type.name, order[i].name>>)
            /\ b.result[i].name = order[i].name
       /\ \A i \in 1..Len(b.result), j \in 1..Len(b.result) :
            (/\ b.result[i].type_id \in TypeIds(PIPELINE_CONTEXT_TYPE_NAME)
             /\ b.result[j].type_id \notin TypeIds(PIPELINE_CONTEXT_TYPE_NAME))
            => i < j

\* A batch that names the pipeline run before the pipeline has returned, the
\* pipeline's context first.
C13_Witness ==
  \E b \in batches :
    /\ b.specs = <<SpecR1, SpecP2>>
    /\ b.result[1].name = SpecP2.name
    /\ b.result[2].name = SpecR1.name

\* Batch b has returned and was the only caller for its contexts, on a store
\* that held none of them: each was created, by the batch's one invocation for
\* it, no call has failed and no edge was put directly.
RanAlone(b) ==
  /\ AllIdle
  /\ FaultCount = 0
  /\ links = {}
  /\ \A e \in log :
       (\E i \in 1..Len(b.specs) : PairOf(e) = <<b.specs[i].type.name, b.specs[i].name>>)
       => e.outcome = "returned" /\ e.path = "created"

\* the ids of the PIPELINE contexts in the result of batch b
PipelinesOf(b) ==
  {b.result[i].id : i \in {j \in 1..Len(b.result) : IsPipeline(PipelinesFirst(b.specs)[j])}}

\* C14: after a batch that ran as the only caller for its contexts on a store
\* holding none of them, every PIPELINE_RUN context of the batch has an edge
\* from every PIPELINE context of the batch and from nothing else, and the
\* PIPELINE contexts and the contexts of other types have no incoming edge.
C14_BatchParentRule ==
  \A b \in batches :
    RanAlone(b) =>
      \A i \in 1..Len(b.result) :
        ParentsIn(b.result[i].id) =
          IF PipelinesFirst(b.specs)[i].type.name = PIPELINE_RUN_CONTEXT_TYPE_NAME
          THEN PipelinesOf(b) ELSE {}

\* A batch of two pipelines and a pipeline run has run alone: the run has both
\* pipelines as parents.
C14_Witness ==
  \E b \in batches :
    /\ RanAlone(b)
    /\ b.specs = <<SpecP1, SpecP2, SpecR1>>
    /\ Cardinality(ParentsIn(b.result[3].id)) = 2
    /\ ParentsIn(b.result[1].id) = {}

\* A batch with a context of another type has run alone: that context has no
\* parent.
C14_WitnessOther ==
  \E b \in batches :
    /\ RanAlone(b)
    /\ b.specs = <<SpecP1, SpecR1, SpecNa>>
    /\ ParentsIn(b.result[3].id) = {}
    /\ ParentsIn(b.result[2].id) = {b.result[1].id}

\* every edge of the store joins two rows of the context table
EdgesJoinRows ==
  \A pair \in BagToSet(edges) : pair[1] \in ContextIds /\ pair[2] \in ContextIds

\* Caller p is in the second loop of a batch: the first loop has registered
\* every PIPELINE spec of the batch, and pipeline_contexts are their rows.
PipelinesPersisted(p) ==
  LET o == outer[p]
      pipelines == SelectSeq(o.specs, IsPipeline)
  IN /\ Len(o.pipeline_contexts) = Len(pipelines)
     /\ \A j \in 1..Len(pipelines) :
          o.pipeline_contexts[j] \in RowsOf(<<pipelines[j].type.name, pipelines[j].name>>)
     /\ frame[p].spec.type.name = PIPELINE_RUN_CONTEXT_TYPE_NAME
          => frame[p].parents = o.pipeline_contexts

CreatorParents(id) ==
  Requested(id, {"created"})
    \cup UNION {Range(frame[p].parents) :
                  p \in {q \in Procs : /\ pc[q] = "link"
                                       /\ frame[q].path = "created"
                                       /\ frame[q].context.id = id}}

\* C16: whenever an invocation has found the context on its first lookup and
\* returned, the edges from the parents that the context's creator asked for
\* are in the store, under every interleaving of the callers.
C16_FastPathEdgesPresent ==
  \A e \in Returned :
    e.path = "fast" => CreatorParents(e.context.id) \subseteq ParentsIn(e.context.id)

\* Every invocation for the pair of crashed caller q's context, logged or
\* running, has started after q stopped.
OnlyLateCalls(q) ==
  LET id == frame[q].context.id
  IN /\ \A e \in log : e.spec = frame[q].spec => id \in e.late
     /\ \A p \in Procs \ {q} :
          (pc[p] # "idle" /\ frame[p].spec = frame[q].spec) => id \in frame[p].late

C17_WitnessLinked ==
  \E q \in Procs :
    /\ pc[q] = "crashed" /\ OnlyLateCalls(q)
    /\ ParentsIn(frame[q].context.id) # {}

\* The step of caller p in which the build of its context raises RuntimeError.
C18_Step(p) ==
  (/\ pc[p] = "generate"
   /\ frame'[p] # frame[p]
   /\ faults' = faults
   /\ MismatchedKeys(register_type_if_not_exist(frame[p].spec.type), frame[p].spec) # {})
  => /\ contexts' = contexts /\ edges' = edges
     /\ types' \in {types, Append(types, [name |-> frame[p].spec.type.name,
                                          properties |-> frame[p].spec.type.properties])}
     /\ pc'[p] = "idle" /\ frame'[p] = None /\ outer'[p] = NoOuter
     /\ \E e \in log' :
          /\ e.outcome = "RuntimeError" /\ e.context = None
          /\ e.spec = frame[p].spec /\ e.parents = frame[p].parents

\* an invocation that raised RuntimeError: a lookup, the type registration, and
\* no insert of a context or of an edge
C18_Entries ==
  \A e \in log :
    e.outcome = "RuntimeError" =>
      /\ e.lookups = 1 /\ e.typeregs = 1
      /\ e.inserts = 0 /\ e.edgeputs = 0
      /\ e.path = "none"

\* C18: when an invocation fails on a property whose kind differs from the
\* registered schema's (RuntimeError), it has inserted no context for its pair
\* and no parent edge; the one change it may have made to the store is the
\* registration of the type.
C18_SchemaMismatchLeavesStore ==
  /\ []C18_Entries
  /\ [][\A p \in Procs : C18_Step(p)]_vars

\* An invocation with a parent has raised RuntimeError: its type is registered,
\* its pair has no row and its parent has no edge to anything.
C18_Witness ==
  \E e \in log :
    /\ e.outcome = "RuntimeError"
    /\ e.parents # << >>
    /\ TypeIds(e.spec.type.name) # {}
    /\ RowsOf(PairOf(e)) = {}
    /\ \A pair \in BagToSet(edges) : pair[1] \notin Range(e.parents)

\* the store calls of one invocation: two lookups, one type registration, one
\* insert, one edge insert per parent
WorkBounded(f) ==
  /\ f.lookups <= 2
  /\ f.typeregs <= 1
  /\ f.inserts <= 1
  /\ f.edgeputs <= Len(f.parents)
  /\ f.lookups = 2 => f.inserts = 1

C19_Work ==
  /\ \A e \in log : WorkBounded(e)
  /\ \A p \in Procs : pc[p] # "idle" => WorkBounded(frame[p])

\* C19: every invocation makes at most two lookups, one type registration, one
\* insert and one edge insert per parent, no step is made a second time, and
\* every caller that is inside a call leaves it, also when several callers run
\* for the same pair.
C19_BoundedWorkAndTermination ==
  /\ []C19_Work
  /\ \A p \in Procs : (pc[p] # "idle") ~> (pc[p] = "idle")

\* Two callers for one pair have both left their calls; the one that lost the
\* insert made its second lookup and one edge insert for each of its parents.
C19_Witness ==
  /\ AllIdle
  /\ \E e1 \in Returned, e2 \in Returned :
       /\ e1.path = "created" /\ e2.path = "conflict"
       /\ PairOf(e1) = PairOf(e2)
       /\ e2.lookups = 2 /\ e2.inserts = 1
       /\ e2.parents # << >> /\ e2.edgeputs = Len(e2.parents)

(***************************************************************************)
(* The python execution binary: entrypoint.main and                        *)
(* python_execution_lib._run_python_custom_component.                      *)
(***************************************************************************)
ClassPaths == {"pkg.ExecutorA", "pkg.ExecutorB"}
OutputUris == {"/out/1", "/out/2"}

\* the values of --tfx_mlmd_connection_config_b64: not given, empty, a config
MlmdFlagValues == {None, [value |-> ""], [value |-> "c3FsaXRl"]}

\* the values of the two executable spec flags: exactly one is given
SpecFlagValues ==
  {[beam |-> None, python |-> [value |-> c]] : c \in ClassPaths}
    \cup {[beam |-> [value |-> c], python |-> None] : c \in ClassPaths}

\* python_execution_binary_utils.deserialize_executable_spec
deserialize_executable_spec(flag, with_beam) ==
  IF with_beam
  THEN [kind |-> "BeamExecutableSpec",
        python_executor_spec |-> [class_path |-> flag.value]]
  ELSE [kind |-> "PythonClassExecutableSpec", class_path |-> flag.value]

\* python_execution_binary_utils.deserialize_mlmd_connection_config
deserialize_mlmd_connection_config(value) ==
  IF value = "c3FsaXRl" THEN [config |-> "sqlite"] ELSE [config |-> "default"]

\* the messages a driver or an executor may hand back; None when it has none
Messages == {[fields |-> << >>], [fields |-> <<1>>]}
RunResults == {None} \cup Messages

\* run_result.SerializeToString(): field 1 as a varint, nothing for no field
SerializeToString(message) ==
  IF message.fields = << >> THEN << >> ELSE <<8>> \o message.fields

\* lines 36-48: the class path _import_class_path imports
ImportedClassPath(executable_spec) ==
  IF executable_spec.kind = "BeamExecutableSpec"
  THEN executable_spec.python_executor_spec.class_path
  ELSE executable_spec.class_path

\* variant: every run is an executor run
MutDriverNever(flag) == FALSE

\* line 75: if MLMD_CONNECTION_CONFIG_FLAG.value
IsDriverRun(flag) == flag # None /\ flag.value # ""

\* line 86: if run_result (a message is true whatever its fields)
ResultProduced(run_result) == run_result # None

NoFiles == [uri \in {} |-> << >>]

InitDispatch ==
  /\ types = << >>
  /\ contexts = << >>
  /\ edges = EmptyBag
  /\ pc = [p \in Procs |-> "idle"]
  /\ frame = [p \in Procs |-> None]
  /\ outer = [p \in Procs |-> NoOuter]
  /\ log = {}
  /\ batches = {}
  /\ links = {}
  /\ calls = 0
  /\ faults = [error |-> 0, lost |-> 0]
  /\ build = NoBuild
  /\ \E specflags \in SpecFlagValues, mlmd \in MlmdFlagValues, uri \in OutputUris :
       disp = [pc |-> "main",
               specflags |-> specflags,
               mlmd |-> mlmd,
               execution_output_uri |-> uri,
               executable_spec |-> None,
               run_result |-> None,
               trace |-> << >>,
               files |-> NoFiles]

DispUnchanged ==
  UNCHANGED <<types, contexts, edges, pc, frame, outer, log, batches, links, calls,
              faults, build>>

\* entrypoint.py lines 41-64: main deserializes the flags and calls run
Main ==
  /\ disp.pc = "main"
  /\ disp' = [disp EXCEPT
        !.executable_spec =
          IF disp.specflags.beam # None
          THEN deserialize_executable_spec(disp.specflags.beam, TRUE)
          ELSE deserialize_executable_spec(disp.specflags.python, FALSE),
        !.pc = "import"]
  /\ DispUnchanged

\* line 71: _import_class_path(executable_spec)
Import ==
  /\ disp.pc = "import"
  /\ disp' = [disp EXCEPT
        !.trace = Append(@, <<"import", ImportedClassPath(disp.executable_spec)>>),
        !.pc = "dispatch"]
  /\ DispUnchanged

\* line 71: import_utils.import_class_by_path raises
ImportRaises ==
  /\ disp.pc = "import"
  /\ disp' = [disp EXCEPT !.pc = "raised"]
  /\ DispUnchanged

\* lines 75-80: the driver run
RunDriver ==
  /\ disp.pc = "dispatch"
  /\ IsDriverRun(disp.mlmd)
  /\ \E r \in RunResults :
       disp' = [disp EXCEPT
         !.trace = Append(@, <<"driver", deserialize_mlmd_connection_config(disp.mlmd.value)>>),
         !.run_result = r,
         !.pc = "write"]
  /\ DispUnchanged

\* lines 81-84: the executor run
RunExecutor ==
  /\ disp.pc = "dispatch"
  /\ ~IsDriverRun(disp.mlmd)
  /\ \E r \in RunResults :
       disp' = [disp EXCEPT
         !.trace = Append(@, <<"executor">>),
         !.run_result = r,
         !.pc = "write"]
  /\ DispUnchanged

\* lines 75-84: the driver or the executor raises
RunRaises ==
  /\ disp.pc = "dispatch"
  /\ disp' = [disp EXCEPT
        !.trace = Append(@, IF IsDriverRun(disp.mlmd)
                            THEN <<"driver", deserialize_mlmd_connection_config(disp.mlmd.value)>>
                            ELSE <<"executor">>),
        !.pc = "raised"]
  /\ DispUnchanged

\* lines 86-88: the result file
WriteResult ==
  /\ disp.pc = "write"
  /\ disp' = IF ResultProduced(disp.run_result)
             THEN [disp EXCEPT
                     !.files = (disp.execution_output_uri :> SerializeToString(disp.run_result)),
                     !.trace = Append(@, <<"write", disp.execution_output_uri>>),
                     !.pc = "done"]
             ELSE [disp EXCEPT !.pc = "done"]
  /\ DispUnchanged

NextDispatch ==
  \/ Main
  \/ Import
  \/ ImportRaises
  \/ RunDriver
  \/ RunExecutor
  \/ RunRaises
  \/ WriteResult

SpecDispatch == InitDispatch /\ [][NextDispatch]_vars

\* a connection config is given on the command line
ConfigSupplied == disp.mlmd # None /\ disp.mlmd.value # ""

\* the calls made so far that are driver or executor runs
PathsRun == {i \in 1..Len(disp.trace) : disp.trace[i][1] \in {"driver", "executor"}}

\* C20: every run of the binary first imports the class of the executable spec,
\* then runs one of the two paths and never both, the driver path if and only
\* if a metadata-store connection config is supplied, and ends with the
\* serialized result in the file at the output location if and only if the
\* path it ran handed back a result.
C20_Dispatch ==
  LET tr == disp.trace
  IN /\ Len(tr) >= 1 =>
          tr[1] = <<"import", IF disp.specflags.beam # None
                              THEN disp.specflags.beam.value
                              ELSE disp.specflags.python.value>>
     /\ PathsRun \subseteq {2}
     /\ \A i \in PathsRun : tr[i][1] = IF ConfigSupplied THEN "driver" ELSE "executor"
     /\ \A i \in PathsRun : tr[i][1] = "driver" => tr[i][2] = [config |-> "sqlite"]
     /\ disp.pc \in {"write", "done"} => PathsRun = {2}
     /\ disp.pc \in {"main", "import", "dispatch", "write", "raised"} => disp.files = NoFiles
     /\ \A i \in 1..Len(tr) : tr[i][1] = "write" => i = 3 /\ disp.pc = "done"
     /\ disp.pc = "done" =>
          IF disp.run_result # None
          THEN /\ disp.files =
                    (disp.execution_output_uri :>
                       IF disp.run_result.fields = << >> THEN << >> ELSE <<8, 1>>)
               /\ Len(tr) = 3
          ELSE disp.files = NoFiles /\ Len(tr) = 2

\* A driver run of a Beam executable has written its result.
C20_Witness ==
  /\ disp.pc = "done"
  /\ disp.specflags.beam # None
  /\ ConfigSupplied
  /\ disp.trace[2][1] = "driver"
  /\ DOMAIN disp.files = {disp.execution_output_uri}
  /\ disp.files[disp.execution_output_uri] = <<8, 1>>

\* An executor run without a result has ended with no file written; the flag
\* was given empty.
C20_WitnessNoResult ==
  /\ disp.pc = "done"
  /\ disp.mlmd = [value |-> ""]
  /\ disp.trace[2][1] = "executor"
  /\ disp.run_result = None
  /\ disp.files = NoFiles

====
